---- MODULE Spec2Model ----
(***************************************************************************)
(* A model of prepare.py: a project of units is parsed, its symbol tables  *)
(* are aggregated, references are analyzed into direct and channel edges,  *)
(* the units are ordered by reverse_topological_sort and evaluated in that *)
(* order; every template unit writes <target>.tmp and deploys it.          *)
(***************************************************************************)
EXTENDS Integers, Sequences, FiniteSets, TLC

\* ------------------------------------------------------------------ bounds
NumUnits == 3
NumCode == 1
MaxDecls == 3
MaxRefs == 3
MaxSites == 2
MaxRuns == 2

\* ------------------------------------------------------------------ inputs
\* The units of the project, in the order the command line adds them.
Units == 1..NumUnits

\* TemplateUnit or CodeUnit: a source name ending in ".py" is a code unit.
IsTemplate(u) == u > NumCode

\* Source names as character codes: "a.py" for a code unit, "b.y" for a template.
sourcename(u) ==
    IF IsTemplate(u) THEN <<96 + u, 46, 121>> ELSE <<96 + u, 46, 112, 121>>

\* The capitalized names the sources bind: "@producer def P", "@consumer def Q"
\* and the plain assignment "S = ...".
DeclNames == {"P", "Q", "S"}

\* dir(__builtins__), as far as the sources read it.
Builtins == {"Exception"}

\* The content of a file is a sequence of codes; NoFile stands for no file.
NoFile == <<-1>>

\* What an earlier generation, interrupted in its rename, left in the output
\* directory: in the target and in <target>.tmp.
Stale == <<0>>

RECURSIVE SubsetsUpTo(_, _)
SubsetsUpTo(S, k) ==
    IF k = 0 THEN {{}}
    ELSE LET R == SubsetsUpTo(S, k - 1)
         IN  R \cup {r \cup {x} : r \in R, x \in S}

\* Binding sites <<unit, name, k>>: the k-th place in the unit that binds name.
StoreSites == Units \X DeclNames \X (1..MaxSites)

DownClosed(D) == \A s \in D : s[3] > 1 => <<s[1], s[2], s[3] - 1>> \in D

StoreFamily == {D \in SubsetsUpTo(StoreSites, MaxDecls) : DownClosed(D)}

\* The project names the sources read; every source also reads the builtins.
LoadFamily == SubsetsUpTo(Units \X DeclNames, MaxRefs)

VARIABLES
    stores,      \* input: per unit, the binding sites <<name, k>> of its source
    loads,       \* input: per unit, the capitalized names its source reads
    pc,          \* where Project.process stands
    run,         \* the number of the current invocation
    declsyms,    \* unit.declsyms
    refnames,    \* unit.refnames
    symbolmap,   \* name -> Symbol
    datamap,     \* owner unit -> Data
    depends,     \* set of <<dependent, prerequisite>>
    queue,       \* reverse_topological_sort: queue
    out_degrees, \* reverse_topological_sort: out_degrees
    list,        \* reverse_topological_sort: list
    evaluated,   \* the units whose evaluate was called, in call order
    globaldict,  \* the set of names bound in globaldict, with the binding unit
    registry,    \* the state of the objects bound in globaldict
    dirExists,   \* whether the output directory exists
    target,      \* per unit, the content of its target file or NoFile
    mtime,       \* per unit, the run that last replaced its target (0: none)
    tmp,         \* per unit, the content of <target>.tmp or NoFile
    notices,     \* the units whose change notice was printed in this run
    fault,       \* what the environment made fail in the last evaluate
    error,       \* the exception that ended the run, or "none"
    diag,        \* the cycle list of the CyclicDependency message
    firstTargets, \* history: the targets as the previous run left them
    text,        \* input: the lines of one template source, as tokens
    lineno,      \* do_parse: the number of lines read from the file
    blocks,      \* TemplateUnit.blocks
    code_block,  \* do_parse: code_block
    code_indent, \* do_parse: code_indent
    code_source, \* do_parse: code_source
    blockno,     \* TemplateUnit.evaluate: the number of blocks evaluated
    outputfile,  \* what was written to <target>.tmp so far
    localdict,   \* the localdict of the fragment block executed last
    lines        \* the lines buffered by the fragment block executed last

vars == <<stores, loads, pc, run, declsyms, refnames, symbolmap, datamap,
          depends, queue, out_degrees, list, evaluated, globaldict, registry,
          dirExists, target, mtime, tmp, notices, fault, error, diag,
          firstTargets, text, lineno, blocks, code_block, code_indent,
          code_source, blockno, outputfile, localdict, lines>>

inputVars == <<stores, loads>>
parseVars == <<declsyms, refnames>>
graphVars == <<symbolmap, datamap, depends>>
sortVars == <<queue, out_degrees, list>>
evalVars == <<evaluated, globaldict, registry>>
fsVars == <<dirExists, target, mtime, tmp, notices>>
scanVars == <<lineno, blocks, code_block, code_indent, code_source>>
emitVars == <<blockno, outputfile, localdict, lines>>
unitVars == <<text, scanVars, emitVars>>

Empty == [x \in {} |-> 0]

\* ------------------------------------------------------------------ parse
\* Symbol(name, unit, producer, consumer); site stands for the object's identity
\* (the class defines neither __eq__ nor __hash__).
Symbol(name, unit, site) ==
    [name |-> name, unit |-> unit, site |-> site,
     producer |-> (name = "P"), consumer |-> (name = "Q")]

\* CodeBlock.analyze_symbols: one Symbol per binding site.
analyze_symbols(u) == {Symbol(s[1], u, s[2]) : s \in stores[u]}

\* AbstractUnit.parse: refnames minus the unit's own names and the builtins.
parse_refnames(u) ==
    (loads[u] \ {s.name : s \in analyze_symbols(u)}) \ Builtins

Parse ==
    /\ pc = "parse"
    /\ declsyms' = [u \in Units |-> analyze_symbols(u)]
    /\ refnames' = [u \in Units |-> parse_refnames(u)]
    /\ pc' = "aggregate"
    /\ UNCHANGED <<unitVars, inputVars, run, graphVars, sortVars, evalVars, fsVars,
                   error, diag, firstTargets, fault>>

\* ------------------------------------------------------------------ aggregate
AllSymbols == UNION {declsyms[u] : u \in Units}

\* Mutant: a collision is noticed only for a name some unit references.
NameCollision_referenced(syms) ==
    \E s, t \in syms :
        s # t /\ s.name = t.name /\ \E u \in Units : s.name \in refnames[u]

\* The assertion of the aggregation loop fails when a name is already mapped.
NameCollision(syms) == \E s, t \in syms : s # t /\ s.name = t.name

\* Mutant: a name no unit declares resolves to a default symbol.
BuildSymbolMap_total(syms) ==
    [n \in DeclNames |->
        IF \E s \in syms : s.name = n THEN CHOOSE s \in syms : s.name = n
        ELSE [name |-> n, unit |-> 1, site |-> 1,
              producer |-> FALSE, consumer |-> FALSE]]

\* symbolmap after the aggregation loop.
BuildSymbolMap(syms) ==
    [n \in {s.name : s \in syms} |-> CHOOSE s \in syms : s.name = n]

Aggregate ==
    /\ pc = "aggregate"
    /\ IF NameCollision(AllSymbols)
       THEN /\ error' = "DuplicateSymbol"
            /\ pc' = "failed"
            /\ UNCHANGED symbolmap
       ELSE /\ symbolmap' = BuildSymbolMap(AllSymbols)
            /\ pc' = "analyze"
            /\ UNCHANGED error
    /\ UNCHANGED <<unitVars, inputVars, run, parseVars, datamap, depends, sortVars,
                   evalVars, fsVars, diag, firstTargets, fault>>

\* ------------------------------------------------------------------ analyze
\* symbolmap[name] raises KeyError for a name no unit declares.
Unresolved(u) == refnames[u] \ DOMAIN symbolmap

\* The units get_data(owner).producers / .consumers collect.
ChannelProducers(owner) ==
    {u \in Units : \E n \in refnames[u] :
        symbolmap[n].unit = owner /\ symbolmap[n].producer}

ChannelConsumers(owner) ==
    {u \in Units : \E n \in refnames[u] :
        symbolmap[n].unit = owner /\ symbolmap[n].consumer}

\* datamap after every unit's analyze_references: a Data per owner unit that
\* has a referenced producer or consumer symbol.
BuildDataMap ==
    [o \in {w \in Units : ChannelProducers(w) \cup ChannelConsumers(w) # {}} |->
        [producers |-> ChannelProducers(o), consumers |-> ChannelConsumers(o)]]

Analyze ==
    /\ pc = "analyze"
    /\ IF \E u \in Units : Unresolved(u) # {}
       THEN /\ error' = "UnresolvedSymbol"
            /\ pc' = "failed"
            /\ UNCHANGED datamap
       ELSE /\ datamap' = BuildDataMap
            /\ pc' = "depends"
            /\ UNCHANGED error
    /\ UNCHANGED <<unitVars, inputVars, run, parseVars, symbolmap, depends, sortVars,
                   evalVars, fsVars, diag, firstTargets, fault>>

\* ------------------------------------------------------------------ depends
\* (unit, symbol.unit) for every referenced name.
DirectEdges ==
    UNION {{<<u, symbolmap[n].unit>> : n \in refnames[u]} : u \in Units}

\* Mutant: the pair is added as (prod, cons).
ChannelEdges_reversed ==
    UNION {datamap[o].producers \X datamap[o].consumers : o \in DOMAIN datamap}

\* (cons, prod) for every producer and consumer of one Data.
ChannelEdges ==
    UNION {datamap[o].consumers \X datamap[o].producers : o \in DOMAIN datamap}

\* Mutant: the channel edges are left out of the sort.
CombinedEdges_direct == DirectEdges

\* depends: both edge classes in one set.
CombinedEdges == DirectEdges \cup ChannelEdges

\* get_out_degree(vertex)
get_out_degree(vertex, edges) == Cardinality({e \in edges : e[1] = vertex})

\* get_in_edges(vertex)
get_in_edges(vertex, edges) == {e \in edges : e[2] = vertex}

\* The vertices of out-degree 0, in the order of the vertex list.
RECURSIVE InitialQueue(_, _)
InitialQueue(v, edges) ==
    IF v > NumUnits THEN <<>>
    ELSE (IF get_out_degree(v, edges) = 0 THEN <<v>> ELSE <<>>)
         \o InitialQueue(v + 1, edges)

InitialOutDegrees(edges) ==
    [v \in {w \in Units : get_out_degree(w, edges) # 0} |->
        get_out_degree(v, edges)]

\* Builds depends and enters reverse_topological_sort up to its while loop.
Depends ==
    /\ pc = "depends"
    /\ depends' = CombinedEdges
    /\ queue' = InitialQueue(1, CombinedEdges)
    /\ out_degrees' = InitialOutDegrees(CombinedEdges)
    /\ list' = <<>>
    /\ pc' = "sort"
    /\ UNCHANGED <<unitVars, inputVars, run, parseVars, symbolmap, datamap, evalVars,
                   fsVars, error, diag, firstTargets, fault>>

\* ------------------------------------------------------------------ sort
\* All the orders in which a set can be iterated.
RECURSIVE Orderings(_)
Orderings(S) ==
    IF S = {} THEN {<<>>}
    ELSE UNION {{<<x>> \o o : o \in Orderings(S \ {x})} : x \in S}

\* Mutant: a head is queued when its count reaches 1, not 0.
RECURSIVE RelaxInEdges_early(_, _)
RelaxInEdges_early(ord, st) ==
    IF ord = <<>> THEN st
    ELSE LET head == Head(ord)[1]
             deg == st.d[head] - 1
             d2 == [st.d EXCEPT ![head] = deg]
             q2 == IF deg = 1 THEN Append(st.q, head) ELSE st.q
         IN  RelaxInEdges_early(Tail(ord), [q |-> q2, d |-> d2])

\* The body of "for edge in get_in_edges(vertex)": the in-edges in iteration
\* order ord; st holds queue q and out_degrees d.
RECURSIVE RelaxInEdges(_, _)
RelaxInEdges(ord, st) ==
    IF ord = <<>> THEN st
    ELSE LET head == Head(ord)[1]
             deg == st.d[head] - 1
             d2 == [st.d EXCEPT ![head] = deg]
             q2 == IF deg = 0 THEN Append(st.q, head) ELSE st.q
         IN  RelaxInEdges(Tail(ord), [q |-> q2, d |-> d2])

\* One iteration of the while loop.
SortStep ==
    /\ pc = "sort"
    /\ queue # <<>>
    /\ LET vertex == Head(queue)
       IN  \E ord \in Orderings(get_in_edges(vertex, depends)) :
              LET st == RelaxInEdges(ord, [q |-> Tail(queue), d |-> out_degrees])
              IN  /\ queue' = st.q
                  /\ out_degrees' = st.d
                  /\ list' = Append(list, vertex)
    /\ UNCHANGED <<unitVars, inputVars, pc, run, parseVars, graphVars, evalVars, fsVars,
                   error, diag, firstTargets, fault>>

\* " -> "
Arrow == <<32, 45, 62, 32>>

\* " -> ".join([unit.sourcename for unit in list])
RECURSIVE JoinNames(_)
JoinNames(path) ==
    IF Len(path) = 0 THEN <<>>
    ELSE IF Len(path) = 1 THEN sourcename(path[1])
    ELSE sourcename(path[1]) \o Arrow \o JoinNames(Tail(path))

InSeq(x, s) == \E i \in 1..Len(s) : s[i] = x

\* find_cycle(seen, vertex, edges, cycles): the strings it adds to cycles.
RECURSIVE find_cycle(_, _, _)
find_cycle(seen, vertex, edges) ==
    UNION {LET next == Append(seen, e[2])
           IN  IF InSeq(e[2], seen) THEN {JoinNames(next)}
               ELSE find_cycle(next, e[2], edges)
           : e \in {f \in edges : f[1] = vertex}}

\* Python's order of str: by code point, a proper prefix first.
RECURSIVE StrLess(_, _)
StrLess(a, b) ==
    IF b = <<>> THEN FALSE
    ELSE IF a = <<>> THEN TRUE
    ELSE IF a[1] # b[1] THEN a[1] < b[1]
    ELSE StrLess(Tail(a), Tail(b))

\* list(sorted(cycles))
RECURSIVE Sorted(_)
Sorted(S) ==
    IF S = {} THEN <<>>
    ELSE LET m == CHOOSE x \in S : \A y \in S \ {x} : StrLess(x, y)
         IN  <<m>> \o Sorted(S \ {m})

\* Mutant: the search starts from the first vertex only.
find_cycles_first(edges) == Sorted(find_cycle(<<1>>, 1, edges))

\* find_cycles(vertices, edges)
find_cycles(edges) ==
    Sorted(UNION {find_cycle(<<v>>, v, edges) : v \in Units})

\* Mutant: the units the sort could order are evaluated before the length
\* test reports the cycle.
SortFinish_lazy ==
    /\ pc = "sort"
    /\ queue = <<>>
    /\ IF Len(list) # NumUnits
       THEN /\ error' = "CyclicDependency"
            /\ diag' = find_cycles(depends)
            /\ pc' = "failed"
            /\ evaluated' = list
       ELSE /\ pc' = "evaluate"
            /\ UNCHANGED <<error, diag, evaluated>>
    /\ UNCHANGED <<unitVars, inputVars, run, parseVars, graphVars, sortVars, globaldict,
                   registry, fsVars, firstTargets, fault>>

\* The end of reverse_topological_sort: the length test and the return.
SortFinish ==
    /\ pc = "sort"
    /\ queue = <<>>
    /\ IF Len(list) # NumUnits
       THEN /\ error' = "CyclicDependency"
            /\ diag' = find_cycles(depends)
            /\ pc' = "failed"
       ELSE /\ pc' = "evaluate"
            /\ UNCHANGED <<error, diag>>
    /\ UNCHANGED <<unitVars, inputVars, run, parseVars, graphVars, sortVars, evalVars,
                   fsVars, firstTargets, fault>>

\* ------------------------------------------------------------------ evaluate
\* The names of the Symbols the unit's block registered (CodeBlock.declnames).
declnames(u) == {s.name : s \in declsyms[u]}

\* The unit the for loop of Project.process evaluates next.
NextUnit == list[Len(evaluated) + 1]

\* A fragment reads every name of refnames from globaldict: NameError when one
\* is not bound yet.
Unbound(u, g) == refnames[u] \ DOMAIN g

\* exec of the unit's fragment and the copy of its declared names into
\* globaldict.  The fragment binds each of its names to a fresh registry and
\* appends itself to every registry it references.
ExecGlobals(u, g) ==
    [n \in DOMAIN g \cup declnames(u) |-> IF n \in declnames(u) THEN u ELSE g[n]]

\* exec(code, globaldict, localdict) puts "__builtins__" into a globals
\* dictionary that lacks it, before the code runs.
ExecBuiltins(u, g) ==
    [n \in DOMAIN g \cup {"__builtins__"} |-> IF n \in DOMAIN g THEN g[n] ELSE u]

ExecRegistry(u, r) ==
    [n \in DOMAIN r \cup declnames(u) |->
        IF n \in declnames(u) THEN <<>>
        ELSE IF n \in refnames[u] THEN Append(r[n], u)
        ELSE r[n]]

\* TemplateCodeBlock.evaluate binds the emission primitive before the exec.
BindEcho(u, g) ==
    [n \in DOMAIN g \cup {"_echo"} |-> IF n = "_echo" THEN u ELSE g[n]]

\* The text a template unit writes: its literal text, then for every registry
\* it references (in the order of its fragment) what the registry holds.
View(u, n, r) == IF n \in refnames[u] THEN <<0>> \o r[n] ELSE <<>>

Render(u, r) == <<u>> \o View(u, "P", r) \o View(u, "Q", r) \o View(u, "S", r)

\* CodeUnit.evaluate: the block's exec may raise.
CodeFaults == {"none", "exec"}

EvaluateCode(u, f) ==
    IF f = "exec" \/ Unbound(u, globaldict) # {}
    THEN /\ error' = (IF f = "exec" THEN "FragmentError" ELSE "NameError")
         /\ pc' = "failed"
         /\ globaldict' = ExecBuiltins(u, globaldict)
         /\ UNCHANGED registry
    ELSE /\ globaldict' = ExecGlobals(u, ExecBuiltins(u, globaldict))
         /\ registry' = ExecRegistry(u, registry)
         /\ UNCHANGED <<error, pc>>

\* Mutant: the target is replaced without the comparison.
Changed_always(u, newdata) == TRUE

\* TemplateUnit.deploy: compare with the target, then rename or remove.
Changed(u, newdata) == target[u] = NoFile \/ newdata # target[u]

\* Mutant: a failed rename takes back what the run has deployed so far.
deploy_rollback(u, newdata, renameFails) ==
    IF Changed(u, newdata)
    THEN /\ notices' = notices \cup {u}
         /\ IF renameFails
            THEN /\ error' = "OSError:rename"
                 /\ pc' = "failed"
                 /\ tmp' = [tmp EXCEPT ![u] = newdata]
                 /\ target' = [v \in Units |->
                                 IF mtime[v] = run THEN NoFile ELSE target[v]]
                 /\ UNCHANGED mtime
            ELSE /\ target' = [target EXCEPT ![u] = newdata]
                 /\ mtime' = [mtime EXCEPT ![u] = run]
                 /\ tmp' = [tmp EXCEPT ![u] = NoFile]
                 /\ UNCHANGED <<error, pc>>
    ELSE /\ tmp' = [tmp EXCEPT ![u] = NoFile]
         /\ UNCHANGED <<target, mtime, notices, error, pc>>

deploy(u, newdata, renameFails) ==
    IF Changed(u, newdata)
    THEN /\ notices' = notices \cup {u}
         /\ IF renameFails
            THEN /\ error' = "OSError:rename"
                 /\ pc' = "failed"
                 /\ tmp' = [tmp EXCEPT ![u] = newdata]
                 /\ UNCHANGED <<target, mtime>>
            ELSE /\ target' = [target EXCEPT ![u] = newdata]
                 /\ mtime' = [mtime EXCEPT ![u] = run]
                 /\ tmp' = [tmp EXCEPT ![u] = NoFile]
                 /\ UNCHANGED <<error, pc>>
    ELSE /\ tmp' = [tmp EXCEPT ![u] = NoFile]
         /\ UNCHANGED <<target, mtime, notices, error, pc>>

\* The finally clause when done is False: os.remove(tempname), which raises
\* FileNotFoundError when the file was never created.
RemoveAfterFailure(u, created, original) ==
    IF created \/ tmp[u] # NoFile
    THEN /\ tmp' = [tmp EXCEPT ![u] = NoFile]
         /\ error' = original
    ELSE /\ error' = "FileNotFoundError"
         /\ UNCHANGED tmp

TemplateFaults == {"none", "makedirs", "open", "exec", "write", "rename"}

\* TemplateUnit.evaluate with its blocks and its deploy.
EvaluateTemplate(u, f) ==
    IF f = "makedirs"
    THEN /\ ~dirExists
         /\ error' = "OSError:makedirs"
         /\ pc' = "failed"
         /\ UNCHANGED <<globaldict, registry, fsVars>>
    ELSE /\ dirExists' = TRUE
         /\ IF f = "open"
            THEN /\ RemoveAfterFailure(u, FALSE, "OSError:open")
                 /\ pc' = "failed"
                 /\ UNCHANGED <<globaldict, registry, target, mtime, notices>>
            ELSE IF f = "exec" \/ Unbound(u, globaldict) # {}
            THEN /\ RemoveAfterFailure(u, TRUE,
                        IF f = "exec" THEN "FragmentError" ELSE "NameError")
                 /\ pc' = "failed"
                 /\ globaldict' = ExecBuiltins(u, BindEcho(u, globaldict))
                 /\ UNCHANGED <<registry, target, mtime, notices>>
            ELSE /\ globaldict' =
                      ExecGlobals(u, ExecBuiltins(u, BindEcho(u, globaldict)))
                 /\ registry' = ExecRegistry(u, registry)
                 /\ IF f = "write"
                    THEN /\ RemoveAfterFailure(u, TRUE, "OSError:write")
                         /\ pc' = "failed"
                         /\ UNCHANGED <<target, mtime, notices>>
                    ELSE deploy(u, Render(u, registry'), f = "rename")

Evaluate ==
    /\ pc = "evaluate"
    /\ Len(evaluated) < Len(list)
    /\ LET u == NextUnit
       IN  /\ evaluated' = Append(evaluated, u)
           /\ IF IsTemplate(u)
              THEN \E f \in TemplateFaults :
                      fault' = f /\ EvaluateTemplate(u, f)
              ELSE /\ \E f \in CodeFaults : fault' = f /\ EvaluateCode(u, f)
                   /\ UNCHANGED fsVars
    /\ UNCHANGED <<unitVars, inputVars, run, parseVars, graphVars, sortVars, diag,
                   firstTargets>>

\* The for loop of Project.process is exhausted: the run ends.
Finish ==
    /\ pc = "evaluate"
    /\ Len(evaluated) = Len(list)
    /\ pc' = "done"
    /\ UNCHANGED <<unitVars, inputVars, run, parseVars, graphVars, sortVars, evalVars,
                   fsVars, error, diag, firstTargets, fault>>

\* The program is invoked again, after a generation that succeeded, on the
\* same sources and the same output directory.
Rerun ==
    /\ pc = "done"
    /\ run < MaxRuns
    /\ run' = run + 1
    /\ pc' = "parse"
    /\ declsyms' = [u \in Units |-> {}]
    /\ refnames' = [u \in Units |-> {}]
    /\ symbolmap' = Empty
    /\ datamap' = Empty
    /\ depends' = {}
    /\ queue' = <<>>
    /\ out_degrees' = Empty
    /\ list' = <<>>
    /\ evaluated' = <<>>
    /\ globaldict' = Empty
    /\ registry' = Empty
    /\ notices' = {}
    /\ fault' = "none"
    /\ error' = "none"
    /\ diag' = <<>>
    /\ firstTargets' = target
    /\ UNCHANGED <<unitVars, inputVars, dirExists, target, mtime, tmp>>

\* ------------------------------------------------------------------ spec
\* A project drawn from the bounded families, before process() is called; the
\* output directory is missing, or holds what an earlier generation left.
Init ==
    /\ \E D \in StoreFamily :
          stores = [u \in Units |-> {<<s[2], s[3]>> : s \in {t \in D : t[1] = u}}]
    /\ \E L \in LoadFamily :
          loads = [u \in Units |->
                      {p[2] : p \in {q \in L : q[1] = u}} \cup Builtins]
    /\ pc = "parse"
    /\ run = 1
    /\ declsyms = [u \in Units |-> {}]
    /\ refnames = [u \in Units |-> {}]
    /\ symbolmap = Empty
    /\ datamap = Empty
    /\ depends = {}
    /\ queue = <<>>
    /\ out_degrees = Empty
    /\ list = <<>>
    /\ evaluated = <<>>
    /\ globaldict = Empty
    /\ registry = Empty
    /\ dirExists \in BOOLEAN
    /\ target = [u \in Units |-> IF dirExists /\ IsTemplate(u) THEN Stale ELSE NoFile]
    /\ tmp = [u \in Units |-> IF dirExists /\ IsTemplate(u) THEN Stale ELSE NoFile]
    /\ mtime = [u \in Units |-> 0]
    /\ notices = {}
    /\ fault = "none"
    /\ error = "none"
    /\ diag = <<>>
    /\ firstTargets = [u \in Units |-> NoFile]
    /\ text = <<>>
    /\ lineno = 0
    /\ blocks = <<>>
    /\ code_block = FALSE
    /\ code_indent = <<>>
    /\ code_source = <<>>
    /\ blockno = 0
    /\ outputfile = <<>>
    /\ localdict = Empty
    /\ lines = <<>>

Next ==
    \/ Parse
    \/ Aggregate
    \/ Analyze
    \/ Depends
    \/ SortStep
    \/ SortFinish
    \/ Evaluate
    \/ Finish
    \/ Rerun

Spec == Init /\ [][Next]_vars

\* ------------------------------------------------------------------ template text
\* One template unit, looked at from its text: do_parse splits the lines into
\* blocks and evaluate writes the blocks to the output.  The text is a sequence
\* of lines, a line a sequence of tokens: single characters, the two markers,
\* and whole statements of fragment code.  The character "?" stands for
\* literal text; it is no Python code wherever it stands in a fragment.
MaxLines == 2
MaxLineLen == 3
MaxCalls == 3

TAB == "<tab>"
SP == " "
NL == "<nl>"
OPEN == "{{{"
CLOSE == "}}}"

\* "if True:\n", which do_parse puts in front of a fragment's source.
HEADER == "if True:<nl>"

\* None, as the value of code_indent and of delim.
None == <<"None">>

Whitespace == {TAB, SP, NL}

\* The statements of the fragments: calls of echo(line, delim, newline), with
\* the field {v} in one of the lines, and the assignment of the local v.
EchoCalls ==
    [e1 |-> [line |-> <<"-", SP, "1">>, delim |-> <<",">>, newline |-> TRUE],
     e2 |-> [line |-> <<"-", SP, "2">>, delim |-> <<",">>, newline |-> TRUE],
     e3 |-> [line |-> <<"-", SP, "3">>, delim |-> <<",">>, newline |-> TRUE],
     ea |-> [line |-> <<"a">>, delim |-> None, newline |-> TRUE],
     eb |-> [line |-> <<"b">>, delim |-> <<";">>, newline |-> FALSE],
     ec |-> [line |-> <<"c">>, delim |-> <<>>, newline |-> FALSE],
     ev |-> [line |-> <<"<", "{v}", ">">>, delim |-> None, newline |-> TRUE]]

\* v = "w"
Assignment == "let"

Statements == DOMAIN EchoCalls \cup {Assignment}

\* The unit of the project that this text belongs to: a template unit.
TheUnit == NumUnits

RECURSIVE SeqsUpTo(_, _)
SeqsUpTo(S, k) ==
    IF k = 0 THEN {<<>>}
    ELSE LET R == SeqsUpTo(S, k - 1)
         IN  R \cup {Append(r, x) : r \in R, x \in S}

\* Texts of characters and markers in any arrangement; every line of a file
\* ends with its newline.
SegLines == {l \o <<NL>> : l \in SeqsUpTo({"?", TAB, OPEN, CLOSE}, MaxLineLen)}

SegTexts == SeqsUpTo(SegLines, MaxLines) \ {<<>>}

\* The literal text in front of a fragment's open marker.
PreTexts == {<<>>, <<TAB, TAB>>, <<"?", TAB, TAB>>, <<"?">>, <<SP, "?", SP>>}

\* A fragment of one statement per line, "pre{{{" ... "}}}?".
FragmentLines(pre, stmts) ==
    <<pre \o <<OPEN, NL>>>>
    \o [i \in 1..Len(stmts) |-> <<SP, stmts[i], NL>>]
    \o <<<<CLOSE, "?", NL>>>>

\* Two fragments of one statement each on one line.
TwoFragmentLine(pre, s1, s2) ==
    <<pre \o <<OPEN, SP, s1, SP, CLOSE, "?", TAB, OPEN, SP, s2, SP, CLOSE, NL>>>>

EmitTexts ==
    {FragmentLines(pre, stmts) :
        pre \in PreTexts, stmts \in SeqsUpTo(Statements, MaxCalls) \ {<<>>}}
    \cup {TwoFragmentLine(pre, s1, s2) :
            pre \in PreTexts, s1 \in Statements, s2 \in Statements}

\* ------------------------------------------------------------------ do_parse
\* text.find(marker): the first position of the marker, 0 when there is none.
Find(t, marker) ==
    IF \E i \in 1..Len(t) : t[i] = marker
    THEN CHOOSE i \in 1..Len(t) : t[i] = marker /\ \A j \in 1..(i - 1) : t[j] # marker
    ELSE 0

\* text.strip() is not empty
NotBlank(t) == \E i \in 1..Len(t) : t[i] \notin Whitespace

\* Mutant: only the run of whitespace that ends at the marker is kept.
RECURSIVE Normalize_run(_)
Normalize_run(t) ==
    IF t = <<>> THEN <<>>
    ELSE IF \E i \in 1..Len(t) : t[i] \notin {TAB, SP} THEN Normalize_run(Tail(t))
    ELSE (IF Head(t) = TAB THEN <<TAB>> ELSE <<SP>>) \o Normalize_run(Tail(t))

\* re.sub(r"[^\t]", " ", text[:i]): every character but the tab becomes a
\* space; a close marker met as literal text is three characters.
RECURSIVE Normalize(_)
Normalize(t) ==
    IF t = <<>> THEN <<>>
    ELSE (IF Head(t) = TAB THEN <<TAB>>
          ELSE IF Head(t) = CLOSE THEN <<SP, SP, SP>>
          ELSE <<SP>>) \o Normalize(Tail(t))

TextBlock(t) == [kind |-> "text", text |-> t, indent |-> None]

TemplateCodeBlock(source, indent) ==
    [kind |-> "code", text |-> source, indent |-> indent]

\* ast.parse(source) in CodeBlock.__init__ raises for a source that holds
\* anything but statements, or no statement at all under its header.
SyntaxError(source) ==
    \/ \E i \in 1..Len(source) :
          source[i] \notin Statements \cup Whitespace \cup {HEADER}
    \/ \A i \in 1..Len(source) : source[i] \notin Statements

\* The body of "for text in file": the loop "while text" on one line.  st holds
\* blocks, code_block, code_indent, code_source and err (the constructor of a
\* fragment block raised).
RECURSIVE ScanLine(_, _)
ScanLine(t, st) ==
    IF t = <<>> \/ st.err THEN st
    ELSE IF st.code_block
    THEN LET i == Find(t, CLOSE)
         IN  IF i > 0
             THEN LET before == SubSeq(t, 1, i - 1)
                      source == IF NotBlank(before) THEN st.code_source \o before
                                ELSE st.code_source
                  IN  IF SyntaxError(source)
                      THEN [st EXCEPT !.code_block = FALSE, !.code_source = source,
                                      !.err = TRUE]
                      ELSE ScanLine(SubSeq(t, i + 1, Len(t)),
                               [blocks |-> Append(st.blocks,
                                              TemplateCodeBlock(source, st.code_indent)),
                                code_block |-> FALSE,
                                code_indent |-> None,
                                code_source |-> <<>>,
                                err |-> FALSE])
             ELSE [st EXCEPT !.code_source = IF NotBlank(t) THEN @ \o t ELSE @]
    ELSE LET i == Find(t, OPEN)
         IN  IF i > 0
             THEN LET before == SubSeq(t, 1, i - 1)
                      indent == Normalize(before)
                      rest == indent \o <<SP, SP, SP>> \o SubSeq(t, i + 1, Len(t))
                  IN  ScanLine(<<HEADER>> \o (IF NotBlank(rest) THEN rest ELSE <<>>),
                               [st EXCEPT !.blocks = Append(@, TextBlock(before)),
                                          !.code_block = TRUE,
                                          !.code_indent = indent])
             ELSE [st EXCEPT !.blocks = Append(@, TextBlock(t))]

\* One line is read from the file and scanned.
ParseLine ==
    /\ pc = "parse"
    /\ lineno < Len(text)
    /\ LET st == ScanLine(text[lineno + 1],
                     [blocks |-> blocks, code_block |-> code_block,
                      code_indent |-> code_indent, code_source |-> code_source,
                      err |-> FALSE])
       IN  /\ blocks' = st.blocks
           /\ code_block' = st.code_block
           /\ code_indent' = st.code_indent
           /\ code_source' = st.code_source
           /\ lineno' = lineno + 1
           /\ IF st.err
              THEN pc' = "failed" /\ error' = "SyntaxError"
              ELSE UNCHANGED <<pc, error>>
    /\ UNCHANGED <<text, emitVars, inputVars, run, parseVars, graphVars, sortVars,
                   evalVars, fsVars, diag, firstTargets, fault>>

\* The file is exhausted: do_parse returns, and the unit, which reads and
\* binds no symbol, is the whole order.
ParseEnd ==
    /\ pc = "parse"
    /\ lineno = Len(text)
    /\ pc' = "evaluate"
    /\ UNCHANGED <<unitVars, inputVars, run, parseVars, graphVars, sortVars,
                   evalVars, fsVars, error, diag, firstTargets, fault>>

\* ------------------------------------------------------------------ emission
\* localdict as CodeBlock.evaluate creates it.
FreshLocals == [n \in {"producer", "consumer"} |-> <<"lambda">>]

\* line.format(**_dict) raises KeyError for a field that _dict does not hold.
KeyError(line, d) == InSeq("{v}", line) /\ "v" \notin DOMAIN d

\* line.format(**_dict): the field {v} is replaced by the value of v.
RECURSIVE Format(_, _)
Format(line, d) ==
    IF line = <<>> THEN <<>>
    ELSE (IF Head(line) = "{v}" THEN d["v"] ELSE <<Head(line)>>)
         \o Format(Tail(line), d)

\* The statements of a fragment's source, in order.
StatementsOf(source) == SelectSeq(source, LAMBDA tok : tok \in Statements)

\* exec of the statements against localdict: st holds locals, the buffer
\* lines of _echo, and err (a statement raised).
RECURSIVE Exec(_, _)
Exec(stmts, st) ==
    IF stmts = <<>> \/ st.err THEN st
    ELSE IF Head(stmts) = Assignment
    THEN Exec(Tail(stmts),
              [st EXCEPT !.locals =
                  [n \in DOMAIN st.locals \cup {"v"} |->
                      IF n = "v" THEN <<"w">> ELSE st.locals[n]]])
    ELSE LET call == EchoCalls[Head(stmts)]
         IN  IF KeyError(call.line, st.locals)
             THEN [st EXCEPT !.err = TRUE]
             ELSE Exec(Tail(stmts),
                       [st EXCEPT !.lines =
                           Append(@, [line |-> Format(call.line, st.locals),
                                      delim |-> call.delim,
                                      newline |-> call.newline])])

\* "if delim"
Truthy(delim) == delim # None /\ delim # <<>>

\* Mutant: the delimiter and the newline are put after the last line too.
RECURSIVE Flush_all(_, _, _)
Flush_all(i, buffered, indent) ==
    IF i > Len(buffered) THEN <<>>
    ELSE LET line1 == IF i > 1 THEN indent \o buffered[i].line
                      ELSE buffered[i].line
             line2 == IF Truthy(buffered[i].delim)
                      THEN line1 \o buffered[i].delim ELSE line1
             line3 == IF buffered[i].newline THEN line2 \o <<NL>> ELSE line2
         IN  line3 \o Flush_all(i + 1, buffered, indent)

\* The loop over enumerate(lines) at the end of TemplateCodeBlock.evaluate,
\* from the i-th buffered line on (i counts from 1).
RECURSIVE Flush(_, _, _)
Flush(i, buffered, indent) ==
    IF i > Len(buffered) THEN <<>>
    ELSE LET line1 == IF i > 1 THEN indent \o buffered[i].line
                      ELSE buffered[i].line
             line2 == IF Truthy(buffered[i].delim) /\ i < Len(buffered)
                      THEN line1 \o buffered[i].delim ELSE line1
             line3 == IF buffered[i].newline /\ i < Len(buffered)
                      THEN line2 \o <<NL>> ELSE line2
         IN  line3 \o Flush(i + 1, buffered, indent)

\* block.evaluate(globaldict, outputfile) for the next block of the unit.
EvaluateBlock ==
    /\ pc = "evaluate"
    /\ blockno < Len(blocks)
    /\ blockno' = blockno + 1
    /\ LET block == blocks[blockno + 1]
       IN  IF block.kind = "text"
           THEN /\ outputfile' = outputfile \o block.text
                /\ UNCHANGED <<localdict, lines, globaldict, pc, error>>
           ELSE LET st == Exec(StatementsOf(block.text),
                               [locals |-> FreshLocals, lines |-> <<>>,
                                err |-> FALSE])
                IN  /\ localdict' = st.locals
                    /\ lines' = st.lines
                    /\ IF st.err
                       THEN /\ globaldict' =
                                 ExecBuiltins(TheUnit, BindEcho(TheUnit, globaldict))
                            /\ pc' = "failed"
                            /\ error' = "FragmentError"
                            /\ UNCHANGED outputfile
                       ELSE /\ globaldict' =
                                 ExecGlobals(TheUnit,
                                     ExecBuiltins(TheUnit, BindEcho(TheUnit, globaldict)))
                            /\ outputfile' = outputfile \o Flush(1, st.lines, block.indent)
                            /\ UNCHANGED <<pc, error>>
    /\ UNCHANGED <<text, scanVars, inputVars, run, parseVars, graphVars, sortVars,
                   evaluated, registry, fsVars, diag, firstTargets, fault>>

\* Every block was evaluated: the output is complete.
UnitFinish ==
    /\ pc = "evaluate"
    /\ blockno = Len(blocks)
    /\ pc' = "done"
    /\ UNCHANGED <<unitVars, inputVars, run, parseVars, graphVars, sortVars,
                   evalVars, fsVars, error, diag, firstTargets, fault>>

\* A template source drawn from the bounded families, before it is parsed.
UnitInit ==
    /\ text \in SegTexts \cup EmitTexts
    /\ lineno = 0
    /\ blocks = <<>>
    /\ code_block = FALSE
    /\ code_indent = None
    /\ code_source = <<>>
    /\ blockno = 0
    /\ outputfile = <<>>
    /\ localdict = Empty
    /\ lines = <<>>
    /\ stores = [u \in Units |-> {}]
    /\ loads = [u \in Units |-> {}]
    /\ pc = "parse"
    /\ run = 1
    /\ declsyms = [u \in Units |-> {}]
    /\ refnames = [u \in Units |-> {}]
    /\ symbolmap = Empty
    /\ datamap = Empty
    /\ depends = {}
    /\ queue = <<>>
    /\ out_degrees = Empty
    /\ list = <<>>
    /\ evaluated = <<>>
    /\ globaldict = Empty
    /\ registry = Empty
    /\ dirExists = TRUE
    /\ target = [u \in Units |-> NoFile]
    /\ tmp = [u \in Units |-> NoFile]
    /\ mtime = [u \in Units |-> 0]
    /\ notices = {}
    /\ fault = "none"
    /\ error = "none"
    /\ diag = <<>>
    /\ firstTargets = [u \in Units |-> NoFile]

UnitNext ==
    \/ ParseLine
    \/ ParseEnd
    \/ EvaluateBlock
    \/ UnitFinish

UnitSpec == UnitInit /\ [][UnitNext]_vars

\* ------------------------------------------------------------------ properties
Pos(s, x) == CHOOSE i \in 1..Len(s) : s[i] = x

Precedes(s, a, b) == InSeq(a, s) /\ InSeq(b, s) /\ Pos(s, a) < Pos(s, b)

IsPrefix(a, b) == Len(a) <= Len(b) /\ SubSeq(b, 1, Len(a)) = a

Contains(s, sub) ==
    \E i \in 0..(Len(s) - Len(sub)) : SubSeq(s, i + 1, i + Len(sub)) = sub

\* The vertices that one edge leads to from a vertex of S.
Step(S, succ) == UNION {succ[v] : v \in S}

RECURSIVE ReachFrom(_, _, _)
ReachFrom(S, succ, k) ==
    IF k = 0 THEN S ELSE ReachFrom(S \cup Step(S, succ), succ, k - 1)

\* No vertex reaches itself along one or more edges.
Acyclic(E) ==
    LET succ == [v \in Units |-> {w \in Units : <<v, w>> \in E}]
    IN  \A v \in Units : v \notin ReachFrom(succ[v], succ, NumUnits)

SelfEdges == {<<v, v>> : v \in Units}

\* The edges as the specification states them, from the parsed units alone.
\* Direct: u references a name that v declares.
StatedDirect ==
    {e \in Units \X Units :
        \E n \in refnames[e[1]] : \E s \in declsyms[e[2]] : s.name = n}

\* Channel: <<c, p>> where p references a Producer symbol and c a Consumer
\* symbol of one owner.
StatedChannel ==
    {e \in Units \X Units :
        \E o \in Units : \E sp, sc \in declsyms[o] :
            /\ sp.producer /\ sp.name \in refnames[e[2]]
            /\ sc.consumer /\ sc.name \in refnames[e[1]]}

StatedEdges == StatedDirect \cup StatedChannel

\* reverse_topological_sort has returned or raised.
SortEnded ==
    \/ pc \in {"evaluate", "done"}
    \/ pc = "failed" /\ error \notin {"DuplicateSymbol", "UnresolvedSymbol"}

\* C1: for a project whose combined edge set is acyclic the sort returns all
\* units with every prerequisite strictly before its dependent, and process
\* evaluates the units in exactly that order.
C1_TopologicalOrder ==
    (SortEnded /\ Acyclic(StatedEdges)) =>
        /\ error # "CyclicDependency"
        /\ Len(list) = NumUnits
        /\ \A u \in Units : InSeq(u, list)
        /\ \A e \in StatedEdges : Precedes(list, e[2], e[1])
        /\ IsPrefix(evaluated, list)
        /\ (pc = "done" => evaluated = list)

C1_Witness ==
    /\ pc = "done"
    /\ evaluated = list
    /\ Acyclic(StatedEdges)
    /\ StatedDirect # {}
    /\ StatedChannel \ StatedDirect # {}

\* C2: a unit that references an owner's Producer symbol is evaluated before
\* every unit that references that owner's Consumer symbol: no consumer is
\* evaluated unless the producer was evaluated earlier, and a successful run
\* evaluated both in that order.
C2_ChannelOrder ==
    \A e \in StatedChannel :
        /\ InSeq(e[1], evaluated) => Precedes(evaluated, e[2], e[1])
        /\ pc = "done" => Precedes(evaluated, e[2], e[1])

C2_Witness ==
    /\ pc = "done"
    /\ \E o, x, y \in Units :
          /\ x # y /\ o # x /\ o # y
          /\ {s.name : s \in declsyms[o]} = {"P", "Q"}
          /\ refnames[x] = {"P"}
          /\ refnames[y] = {"Q"}
          /\ declsyms[x] = {} /\ declsyms[y] = {}
          /\ Precedes(evaluated, x, y)

\* C3 (as claimed): with a self-edge (U, U) and no cycle through two or more
\* units, scheduling succeeds and every unit is placed in the order.
C3_SelfEdgeInert ==
    (/\ SortEnded
     /\ StatedEdges \cap SelfEdges # {}
     /\ Acyclic(StatedEdges \ SelfEdges)) =>
        /\ error # "CyclicDependency"
        /\ \A u \in Units : InSeq(u, list)

\* C4: direct edges acyclic, channel edges acyclic, their union cyclic: the
\* run fails with CyclicDependency and no unit is evaluated.
C4_UnionCycle ==
    (/\ SortEnded
     /\ Acyclic(StatedDirect)
     /\ Acyclic(StatedChannel)
     /\ ~Acyclic(StatedEdges)) =>
        /\ pc = "failed"
        /\ error = "CyclicDependency"
        /\ evaluated = <<>>
        /\ DOMAIN globaldict = {}

C4_Witness ==
    /\ pc = "failed"
    /\ error = "CyclicDependency"
    /\ Acyclic(StatedDirect)
    /\ Acyclic(StatedChannel)
    /\ ~Acyclic(StatedEdges)

\* Units a and b each reference a symbol the other declares.
Mutual(a, b) ==
    a # b /\ <<a, b>> \in StatedDirect /\ <<b, a>> \in StatedDirect

\* C5: when A references a symbol of B and B a symbol of A, the run fails with
\* CyclicDependency and some path string of the diagnostic names both source
\* paths.
C5_MutualReference ==
    \A a, b \in Units :
        (SortEnded /\ Mutual(a, b)) =>
            /\ pc = "failed"
            /\ error = "CyclicDependency"
            /\ \E i \in 1..Len(diag) :
                  /\ Contains(diag[i], sourcename(a))
                  /\ Contains(diag[i], sourcename(b))

C5_Witness ==
    /\ pc = "failed"
    /\ error = "CyclicDependency"
    /\ \E a, b \in Units : Mutual(a, b) /\ Len(diag) > 0

\* Two distinct units declare name n.
DeclaredTwice(n) ==
    \E u, v \in Units :
        /\ u # v
        /\ \E s \in declsyms[u] : s.name = n
        /\ \E t \in declsyms[v] : t.name = n

\* C6: when two distinct units declare one name the aggregation fails with
\* DuplicateSymbol, referenced or not, before reference analysis, edge
\* derivation or scheduling have done anything.
C6_DuplicateSymbol ==
    (pc \notin {"parse", "aggregate"} /\ \E n \in DeclNames : DeclaredTwice(n)) =>
        /\ pc = "failed"
        /\ error = "DuplicateSymbol"
        /\ DOMAIN datamap = {}
        /\ depends = {}
        /\ queue = <<>>
        /\ list = <<>>
        /\ evaluated = <<>>

C6_Witness ==
    /\ pc = "failed"
    /\ error = "DuplicateSymbol"
    /\ \E n \in DeclNames :
          DeclaredTwice(n) /\ \A u \in Units : n \notin loads[u]

\* Unit u references a name that no unit declares.
Undeclared(u) ==
    {n \in refnames[u] : \A v \in Units : \A s \in declsyms[v] : s.name # n}

\* C7: once the symbol table is built, a name left in some unit's refnames
\* that no unit declares makes the run fail with UnresolvedSymbol.
C7_UnresolvedSymbol ==
    (/\ pc \notin {"parse", "aggregate", "analyze"}
     /\ error # "DuplicateSymbol"
     /\ \E u \in Units : Undeclared(u) # {}) =>
        /\ pc = "failed"
        /\ error = "UnresolvedSymbol"

C7_Witness ==
    /\ pc = "failed"
    /\ error = "UnresolvedSymbol"
    /\ \E u \in Units :
          /\ Undeclared(u) # {}
          /\ "Exception" \in loads[u]
          /\ loads[u] \cap {s.name : s \in declsyms[u]} # {}

\* C8 (as claimed): a second generation on unchanged sources leaves every
\* target as the first left it and reports no change.
C8_Idempotent ==
    (run > 1 /\ pc = "done") => (target = firstTargets /\ notices = {})

\* C9: when a template unit's output was written and deploy ran without a
\* failure: a target holding the same content is left as it is (not replaced,
\* no change reported); otherwise the target is replaced by the temporary file
\* and the change is reported; either way the temporary file is gone.
C9_Deployer ==
    [][(pc = "evaluate" /\ pc' = "evaluate" /\ evaluated' # evaluated
            /\ IsTemplate(NextUnit)) =>
        LET u == NextUnit
            newdata == Render(u, registry')
        IN  /\ tmp'[u] = NoFile
            /\ \A v \in Units \ {u} : target'[v] = target[v] /\ mtime'[v] = mtime[v]
            /\ IF target[u] = newdata
               THEN /\ target'[u] = target[u]
                    /\ mtime'[u] = mtime[u]
                    /\ notices' = notices
               ELSE /\ target'[u] = newdata
                    /\ mtime'[u] = run
                    /\ notices' = notices \cup {u}
                    /\ u \notin notices]_vars

C9_Witness ==
    /\ run = 2
    /\ pc = "done"
    /\ \E u, v \in Units :
          /\ IsTemplate(u) /\ IsTemplate(v)
          /\ u \notin notices /\ mtime[u] = 1 /\ target[u] = firstTargets[u]
          /\ v \in notices /\ mtime[v] = 2 /\ target[v] # firstTargets[v]

\* The exception a failed step of the write raises.
OriginalError(f) ==
    IF f = "open" THEN "OSError:open"
    ELSE IF f = "exec" THEN "FragmentError"
    ELSE "OSError:write"

\* C10 (as claimed): when opening the temporary file, a block's evaluation or
\* a write fails, the temporary path does not exist afterwards, the target is
\* left as it was and the original error is the one that propagates.
C10_WriteFailure ==
    [][(pc = "evaluate" /\ IsTemplate(NextUnit) /\ evaluated' # evaluated
            /\ fault' \in {"open", "exec", "write"}) =>
        LET u == NextUnit
        IN  /\ pc' = "failed"
            /\ tmp'[u] = NoFile
            /\ target'[u] = target[u]
            /\ mtime'[u] = mtime[u]
            /\ error' = OriginalError(fault')]_vars

\* The unit whose evaluate raised.
FailedUnit == evaluated[Len(evaluated)]

DeploymentErrors == {"OSError:makedirs", "OSError:write", "OSError:rename"}

\* C11 (as claimed): after a run aborted by a failure of the directory
\* creation, of a write or of the rename, the failing unit's <target>.tmp does
\* not exist.
C11_TempRemoved ==
    (pc = "failed" /\ error \in DeploymentErrors) => tmp[FailedUnit] = NoFile

\* The part of a registry that was there when unit v had appended itself.
Through(s, v) == IF InSeq(v, s) THEN SubSeq(s, 1, Pos(s, v)) ELSE s

\* The text unit v wrote when it was evaluated in this run.
WrittenBy(v) ==
    Render(v, [n \in DOMAIN registry |-> Through(registry[n], v)])

\* C12: when the N-th unit of the order fails, the targets of the units
\* evaluated before it hold what those units wrote, no unit after it is
\* evaluated or deployed, and nothing happens after the failure; the step of
\* a unit touches no other unit's target.
C12_NoRollback ==
    /\ [](pc = "failed" /\ evaluated # <<>> =>
            /\ IsPrefix(evaluated, list)
            /\ \A i \in 1..(Len(evaluated) - 1) :
                  IsTemplate(evaluated[i]) =>
                      /\ target[evaluated[i]] = WrittenBy(evaluated[i])
                      /\ tmp[evaluated[i]] = NoFile
            /\ \A i \in (Len(evaluated) + 1)..Len(list) :
                  /\ mtime[list[i]] # run
                  /\ list[i] \notin notices
                  /\ \A n \in DOMAIN globaldict : globaldict[n] # list[i])
    /\ [][/\ pc # "failed"
          /\ (pc = "evaluate" /\ evaluated' # evaluated) =>
                \A v \in Units \ {NextUnit} :
                    /\ target'[v] = target[v]
                    /\ mtime'[v] = mtime[v]
                    /\ tmp'[v] = tmp[v]]_vars

C12_Witness ==
    /\ pc = "failed"
    /\ error \in DeploymentErrors \cup {"FragmentError"}
    /\ Len(evaluated) = 2
    /\ Len(list) = 3
    /\ IsTemplate(evaluated[1])
    /\ IsTemplate(evaluated[2])
    /\ evaluated[1] \in notices
    /\ mtime[evaluated[1]] = run
    /\ target[evaluated[1]] = WrittenBy(evaluated[1])
    /\ mtime[list[3]] # run

\* The failures of the stages that come before the evaluation.
EarlyErrors == {"DuplicateSymbol", "UnresolvedSymbol", "CyclicDependency"}

\* C13: a run that fails with DuplicateSymbol, UnresolvedSymbol or
\* CyclicDependency has evaluated no unit, bound nothing in the environment
\* and replaced no target; the stages before the evaluation leave every
\* target, every temporary file and the environment as they were.
C13_FailsBeforeEvaluation ==
    /\ []((pc = "failed" /\ error \in EarlyErrors) =>
            /\ evaluated = <<>>
            /\ DOMAIN globaldict = {}
            /\ DOMAIN registry = {}
            /\ notices = {}
            /\ \A u \in Units : mtime[u] # run)
    /\ [][(pc \in {"parse", "aggregate", "analyze", "depends", "sort"}) =>
            (evalVars' = evalVars /\ fsVars' = fsVars)]_vars

C13_Witness ==
    /\ pc = "failed"
    /\ error = "CyclicDependency"
    /\ list # <<>>
    /\ evaluated = <<>>
    /\ \E u \in Units : tmp[u] = Stale /\ target[u] = Stale

\* The paths "A -> B -> ... -> A": distinct units, then the first one again.
ElementaryCycles ==
    {Append(o, o[1]) : o \in UNION {Orderings(S) : S \in SUBSET Units \ {{}}}}

\* C16 (as claimed): the diagnostic has, for every unit that was not
\* scheduled, an entry beginning at that unit; every entry is an elementary
\* cycle; the entries are sorted, without duplicates.
C16_ElementaryCycles ==
    (pc = "failed" /\ error = "CyclicDependency") =>
        /\ \A u \in Units :
              ~InSeq(u, list) =>
                  \E i \in 1..Len(diag) : IsPrefix(sourcename(u) \o Arrow, diag[i])
        /\ \A i \in 1..Len(diag) :
              \E c \in ElementaryCycles : diag[i] = JoinNames(c)
        /\ \A i, j \in 1..Len(diag) : i < j => StrLess(diag[i], diag[j])

\* C17 (as claimed): the environment starts empty; the evaluation of a unit
\* removes no binding and adds or changes only bindings whose names are
\* declared symbols of that unit.
C17_EnvironmentOwnership ==
    /\ [](pc # "evaluate" /\ evaluated = <<>> => DOMAIN globaldict = {})
    /\ [][(pc = "evaluate" /\ evaluated' # evaluated) =>
            /\ DOMAIN globaldict \subseteq DOMAIN globaldict'
            /\ \A n \in DOMAIN globaldict' :
                  (n \notin DOMAIN globaldict \/ globaldict'[n] # globaldict[n])
                      => n \in declnames(NextUnit)]_vars

\* C19 (as claimed): a project in which no two distinct units declare the
\* same name does not fail with DuplicateSymbol, also when one unit binds a
\* name at several places.
C19_OnlyAcrossUnits ==
    (\A n \in DeclNames : ~DeclaredTwice(n)) => error # "DuplicateSymbol"

\* ------------------------------------------------------------------ emission properties
RECURSIVE ConcatAll(_)
ConcatAll(ss) == IF ss = <<>> THEN <<>> ELSE Head(ss) \o ConcatAll(Tail(ss))

\* The echo calls of a fragment's source, in call order.
CallsOf(source) == SelectSeq(source, LAMBDA tok : tok \in DOMAIN EchoCalls)

\* What follows the i-th of n lines: nothing after the last; otherwise the
\* delimiter, if one was given, and a newline unless it was suppressed.
Suffix(call, i, n) ==
    IF i = n THEN <<>>
    ELSE (IF call.delim # None THEN call.delim ELSE <<>>)
         \o (IF call.newline THEN <<NL>> ELSE <<>>)

\* The text of the calls: every line but the first after prefix, every line
\* followed by its suffix.
Emitted(calls, locals, prefix) ==
    ConcatAll([i \in 1..Len(calls) |->
        (IF i = 1 THEN <<>> ELSE prefix)
        \o Format(EchoCalls[calls[i]].line, locals)
        \o Suffix(EchoCalls[calls[i]], i, Len(calls))])

\* A fragment block is evaluated without an error.
BlockEmits ==
    /\ pc = "evaluate"
    /\ pc' = "evaluate"
    /\ blockno' = blockno + 1
    /\ blocks[blockno + 1].kind = "code"

ExampleCalls == <<"e1", "e2", "e3">>

\* "- 1,\n- 2,\n- 3"
ExampleText ==
    <<"-", SP, "1", ",", NL, "-", SP, "2", ",", NL, "-", SP, "3">>

\* C14: the text a fragment block flushes is its n >= 1 buffered lines in call
\* order, every line but the last followed by its delimiter, if given, and by
\* a newline unless suppressed, the last line by neither; the three calls of
\* the example, in a fragment opened at the start of its line, give exactly
\* "- 1,\n- 2,\n- 3".
C14_EmissionFlush ==
    [][BlockEmits =>
        LET block == blocks[blockno + 1]
            calls == CallsOf(block.text)
        IN  /\ Len(lines') = Len(calls)
            /\ outputfile' = outputfile \o Emitted(calls, localdict', block.indent)
            /\ (calls = ExampleCalls /\ block.indent = <<>>) =>
                   outputfile' = outputfile \o ExampleText]_vars

C14_Witness ==
    /\ pc = "done"
    /\ Len(blocks) = 3
    /\ blocks[2].indent = <<>>
    /\ CallsOf(blocks[2].text) = ExampleCalls
    /\ outputfile = ExampleText \o <<"?", NL>>

\* The characters of a text: a marker is three of them.
RECURSIVE Chars(_)
Chars(t) ==
    IF t = <<>> THEN <<>>
    ELSE (IF Head(t) \in {OPEN, CLOSE} THEN <<Head(t), Head(t), Head(t)>>
          ELSE <<Head(t)>>) \o Chars(Tail(t))

\* The run of whitespace that ends a text.
RECURSIVE WhitespaceRun(_)
WhitespaceRun(t) ==
    IF t = <<>> THEN <<>>
    ELSE IF \A i \in 1..Len(t) : t[i] \in Whitespace THEN t
    ELSE WhitespaceRun(Tail(t))

\* Every character that is not a tab replaced by a space.
Spaced(t) == [i \in 1..Len(t) |-> IF t[i] = TAB THEN TAB ELSE SP]

\* The literal text in front of the open marker of the block evaluated next.
TextBefore == blocks[blockno].text

BoundEarlier ==
    \E j \in 1..blockno :
        blocks[j].kind = "code" /\ InSeq(Assignment, blocks[j].text)

\* C18 (as claimed): a local that an earlier fragment block of the unit bound
\* is still bound when a later fragment block of the unit executes.
C18_SharedLocals ==
    [][(/\ pc = "evaluate"
        /\ blockno' = blockno + 1
        /\ blocks[blockno + 1].kind = "code"
        /\ BoundEarlier) =>
            /\ "v" \in DOMAIN localdict'
            /\ error' # "FragmentError"]_vars

\* The open markers that are recognized outside a fragment, in a text read
\* from left to right.
RECURSIVE Recognized(_, _)
Recognized(t, inside) ==
    IF t = <<>> THEN 0
    ELSE IF inside THEN Recognized(Tail(t), Head(t) # CLOSE)
    ELSE IF Head(t) = OPEN THEN 1 + Recognized(Tail(t), TRUE)
    ELSE Recognized(Tail(t), FALSE)

CodeBlocks == {k \in 1..Len(blocks) : blocks[k].kind = "code"}

\* C20 (as claimed): when do_parse has returned without an error, every open
\* marker recognized outside a fragment has its fragment block, also the one
\* the end of the input left open.
C20_NoLostFragment ==
    pc \in {"evaluate", "done"} =>
        Cardinality(CodeBlocks) = Recognized(ConcatAll(text), FALSE)
====
